---- MODULE Spec2Model ----
(***************************************************************************)
(* Primality-testing engine of Prime-Number-Generators: MillerRabin::test, *)
(* BailliePSW::test (trial division, perfect square, base-2 stage, strong  *)
(* Lucas test on lucas_sequence_mod) and PrimalityTester (is_prime,        *)
(* generate_prime, find_prime, MPZUtils::random_odd).                      *)
(*                                                                         *)
(* mpz_t values are unbounded integers.  TLC integers are 32 bit wide, so  *)
(* every product that is reduced modulo n is formed by MulMod, which never *)
(* leaves the 32-bit range for n < 2^29.                                   *)
(***************************************************************************)
EXTENDS Integers, Sequences, FiniteSets, TLC

(***************************************************************************)
(* Bounds of the model.                                                    *)
(***************************************************************************)
\* is_prime is called on every n of -NegN..MaxN and on the ExtraInputs
NegN == 3
MaxN == 128
\* mpz_urandomm draws are explored up to this witness value
MaxWitness == 7
\* generate_prime / find_prime are called with bits in 0..MaxBits
MaxBits == 10
\* mpz_urandomb draws are explored up to this value
MaxDraw == 15
\* lucas_sequence_mod is called with P in 1..MaxP, Q in -MaxQ..MaxQ and
\* k in 0..MaxIndex
MaxP == 2
MaxQ == 3
MaxIndex == 12
\* the passing bases of a round are counted for n up to MaxCountN
MaxCountN == 3277
\* 64-bit outputs one randbits call is explored over
MaxWords == 3
\* iterations of the harness loop before the clock is past end_time
MaxIterations == 3

(***************************************************************************)
(* GMP arithmetic.                                                         *)
(***************************************************************************)
Abs(x) == IF x < 0 THEN -x ELSE x

RECURSIVE MulModLoop(_, _, _)
MulModLoop(x, y, n) ==
    IF y = 0 THEN 0
    ELSE (2 * MulModLoop(x, y \div 2, n) + (y % 2) * x) % n

\* mpz_mul followed by mpz_mod: (a * b) mod n, normalised into 0..n-1
\* (46340 is the largest r whose square is inside the 32-bit range)
MulMod(a, b, n) ==
    LET x == a % n
        y == b % n
    IN  IF x <= 46340 /\ y <= 46340 THEN (x * y) % n
        ELSE MulModLoop(x, y, n)

RECURSIVE BitLength(_)
\* mpz_sizeinbase(x, 2): number of binary digits of |x|, 1 for x = 0
BitLength(x) == IF Abs(x) < 2 THEN 1 ELSE 1 + BitLength(Abs(x) \div 2)

RECURSIVE Pow2(_)
\* 2^i, the weight of bit i
Pow2(i) == IF i = 0 THEN 1 ELSE 2 * Pow2(i - 1)

RECURSIVE PowModLoop(_, _, _, _, _)
\* square and multiply over the bits of e from weight p downwards; acc is
\* base^(e \div 2p) mod n, and stays 0 once it is 0
PowModLoop(acc, base, e, n, p) ==
    IF p = 0 \/ acc = 0 THEN acc
    ELSE LET sq == MulMod(acc, acc, n)
         IN  PowModLoop(IF (e \div p) % 2 = 1 THEN MulMod(sq, base, n) ELSE sq,
                        base, e, n, p \div 2)

\* mpz_powm: base^e mod n for e >= 0
PowMod(base, e, n) ==
    IF e = 0 THEN 1 % n
    ELSE PowModLoop(1 % n, base, e, n, Pow2(BitLength(e) - 1))

\* mpz_tdiv_q_ui: quotient rounded towards zero
TDivQ(a, b) == IF a >= 0 THEN a \div b ELSE -((-a) \div b)

\* mpz_tstbit for a non-negative x
TstBit(x, i) == (x \div Pow2(i)) % 2 = 1

\* mpz_setbit for a non-negative x
SetBit(x, i) == IF TstBit(x, i) THEN x ELSE x + Pow2(i)

RECURSIVE Gcd(_, _)
\* mpz_gcd
Gcd(a, b) == IF b = 0 THEN a ELSE Gcd(b, a % b)

RECURSIVE ISqrtLoop(_, _, _)
ISqrtLoop(x, lo, hi) ==
    IF lo >= hi THEN lo
    ELSE LET mid == (lo + hi + 1) \div 2
         IN  IF mid * mid <= x THEN ISqrtLoop(x, mid, hi)
             ELSE ISqrtLoop(x, lo, mid - 1)

\* floor of the square root of x >= 0
ISqrt(x) == ISqrtLoop(x, 0, IF x < 46340 THEN x ELSE 46340)

\* mpz_perfect_square_p
PerfectSquare(x) == x >= 0 /\ ISqrt(x) * ISqrt(x) = x

RECURSIVE JacobiLoop(_, _, _)
JacobiLoop(a, n, r) ==
    IF a = 0 THEN (IF n = 1 THEN r ELSE 0)
    ELSE IF a % 2 = 0
         THEN JacobiLoop(a \div 2, n, IF n % 8 \in {3, 5} THEN -r ELSE r)
         ELSE JacobiLoop(n % a, a, IF a % 4 = 3 /\ n % 4 = 3 THEN -r ELSE r)

\* mpz_jacobi(a, n) for odd n > 0: the Jacobi symbol (a/n)
Jacobi(a, n) == JacobiLoop(a % n, n, 1)

\* mathematical primality, the reference the verdicts are compared with
Prime(x) == x >= 2 /\ \A q \in 2..ISqrt(x) : x % q # 0

\* mpz_probab_prime_p(n, 5) > 0, exact on the small n it is called with
ProbabPrime(x) == Prime(x)

(***************************************************************************)
(* Decomposition m = 2^s * d with d odd (the while (mpz_even_p(d)) loops). *)
(***************************************************************************)
RECURSIVE DecomposeLoop(_, _)
DecomposeLoop(d, s) ==
    IF d % 2 = 0 THEN DecomposeLoop(d \div 2, s + 1) ELSE [d |-> d, s |-> s]

\* the decomposition with if (mpz_even_p(d)) in place of the while loop
DecomposeHalveOnce(m) ==
    IF m % 2 = 0 THEN [d |-> m \div 2, s |-> 1] ELSE [d |-> m, s |-> 0]

Decompose(m) == DecomposeLoop(m, 0)

(***************************************************************************)
(* MillerRabin::test                                                       *)
(***************************************************************************)
RECURSIVE MRSquareLoopOneIsPass(_, _, _, _)
\* the squaring loop taking x == 1 for a passing round
MRSquareLoopOneIsPass(x, r, s, n) ==
    IF r >= s THEN FALSE
    ELSE LET x2 == PowMod(x, 2, n)
         IN  IF x2 = 1 THEN TRUE
             ELSE IF x2 = n - 1 THEN TRUE
             ELSE MRSquareLoopOneIsPass(x2, r + 1, s, n)

RECURSIVE MRSquareLoop(_, _, _, _)
\* the squaring loop of one round: for (r = 1; r < s; ++r)
MRSquareLoop(x, r, s, n) ==
    IF r >= s THEN FALSE
    ELSE LET x2 == PowMod(x, 2, n)
         IN  IF x2 = 1 THEN FALSE
             ELSE IF x2 = n - 1 THEN TRUE
             ELSE MRSquareLoop(x2, r + 1, s, n)

\* MRRound without the comparison of x with n - 1 before the squaring loop
MRRoundOnlyOne(n, d, s, a) ==
    LET x == PowMod(a, d, n)
    IN  IF x = 1 THEN TRUE
        ELSE MRSquareLoop(x, 1, s, n)

\* MRRound without the comparison of x with 1 before the squaring loop
MRRoundOnlyMinusOne(n, d, s, a) ==
    LET x == PowMod(a, d, n)
    IN  IF x = n - 1 THEN TRUE
        ELSE MRSquareLoop(x, 1, s, n)

\* one round of the witness loop with the drawn witness a: TRUE when the
\* round passes, FALSE when it returns Composite
MRRound(n, d, s, a) ==
    LET x == PowMod(a, d, n)
    IN  IF x = 1 \/ x = n - 1 THEN TRUE
        ELSE MRSquareLoop(x, 1, s, n)

RECURSIVE MRRoundsNeverAccepts(_, _, _, _, _, _)
\* the witness loop followed by return false
MRRoundsNeverAccepts(n, d, s, k, ws, i) ==
    IF i >= k THEN [verdict |-> FALSE, stage |-> "rounds", draws |-> i]
    ELSE IF MRRound(n, d, s, ws[i + 1])
    THEN MRRoundsNeverAccepts(n, d, s, k, ws, i + 1)
    ELSE [verdict |-> FALSE, stage |-> "rounds", draws |-> i + 1]

RECURSIVE MRRoundsLastDecides(_, _, _, _, _, _)
\* the witness loop with the outcome of a round looked at only after the
\* last round
MRRoundsLastDecides(n, d, s, k, ws, i) ==
    IF i >= k THEN [verdict |-> TRUE, stage |-> "rounds", draws |-> i]
    ELSE IF i < k - 1 THEN MRRoundsLastDecides(n, d, s, k, ws, i + 1)
    ELSE [verdict |-> MRRound(n, d, s, ws[i + 1]), stage |-> "rounds",
          draws |-> i + 1]

RECURSIVE MRRounds(_, _, _, _, _, _)
\* for (i = 0; i < k; ++i) from round i on; round i draws the witness
\* ws[i + 1]
MRRounds(n, d, s, k, ws, i) ==
    IF i >= k THEN [verdict |-> TRUE, stage |-> "rounds", draws |-> i]
    ELSE IF MRRound(n, d, s, ws[i + 1]) THEN MRRounds(n, d, s, k, ws, i + 1)
    ELSE [verdict |-> FALSE, stage |-> "rounds", draws |-> i + 1]

\* MillerRabin::test with the evenness test ahead of the base cases
MillerRabinTestEvenFirst(n, k, ws) ==
    IF n % 2 = 0 THEN [verdict |-> FALSE, stage |-> "even", draws |-> 0]
    ELSE IF n < 2 THEN [verdict |-> FALSE, stage |-> "small", draws |-> 0]
    ELSE IF n = 3 THEN [verdict |-> TRUE, stage |-> "small", draws |-> 0]
    ELSE LET ds == Decompose(n - 1)
         IN  MRRounds(n, ds.d, ds.s, k, ws, 0)

\* MillerRabin::test(n, k, gmp_randstate): the verdict and the number of
\* witnesses drawn from the random state, which yields ws[1], ws[2], ...
MillerRabinTest(n, k, ws) ==
    IF n < 2 THEN [verdict |-> FALSE, stage |-> "small", draws |-> 0]
    ELSE IF n = 2 THEN [verdict |-> TRUE, stage |-> "small", draws |-> 0]
    ELSE IF n = 3 THEN [verdict |-> TRUE, stage |-> "small", draws |-> 0]
    ELSE IF n % 2 = 0 THEN [verdict |-> FALSE, stage |-> "even", draws |-> 0]
    ELSE LET ds == Decompose(n - 1)
         IN  MRRounds(n, ds.d, ds.s, k, ws, 0)

\* the witness range with mpz_urandomm bounded by n - 2 instead of n - 3
WitnessRangeToNMinus1(n) == 2..((IF n <= 4 THEN 1 ELSE n - 2) - 1 + 2)

\* the values mpz_urandomm(a, state, n_minus_3) + 2 can take
WitnessRange(n) == 2..((IF n <= 4 THEN 1 ELSE n - 3) - 1 + 2)

(***************************************************************************)
(* BailliePSW                                                              *)
(***************************************************************************)
small_primes == <<
    2, 3, 5, 7, 11, 13, 17, 19, 23, 29, 31, 37, 41, 43, 47, 53, 59, 61, 67, 71,
    73, 79, 83, 89, 97, 101, 103, 107, 109, 113, 127, 131, 137, 139, 149, 151,
    157, 163, 167, 173, 179, 181, 191, 193, 197, 199, 211, 223, 227, 229, 233,
    239, 241, 251, 257, 263, 269, 271, 277, 281, 283, 293, 307, 311, 313, 317,
    331, 337, 347, 349, 353, 359, 367, 373, 379, 383, 389, 397, 401, 409, 419,
    421, 431, 433, 439, 443, 449, 457, 461, 463, 467, 479, 487, 491, 499, 503, 509 >>

num_small_primes == Len(small_primes)

\* one iteration of the loop with the odd-step numerator halved as it is,
\* n never added
LucasStepTruncatingHalf(u0, v0, P, Q, n, bit) ==
    LET t3 == MulMod(u0, v0, n)
        u2m == t3
        v2m == (MulMod(v0, v0, n) - (-2) * Q) % n
        t1 == MulMod(u2m, P, n)
        sum == t1 + v2m
        unew == (sum \div 2) % n
        vnew == (MulMod(v2m, P, n) - MulMod(unew, Q, n)) % n
    IN  IF bit THEN [U |-> unew, V |-> vnew] ELSE [U |-> u2m, V |-> v2m]

\* one iteration of the for loop of lucas_sequence_mod on the running
\* (u0, v0); bit is mpz_tstbit(k_copy, i - 1)
LucasStep(u0, v0, P, Q, n, bit) ==
    LET t3 == MulMod(u0, v0, n)
        u2m == t3
        v2m == (MulMod(v0, v0, n) - (-2) * Q) % n
        t1 == MulMod(u2m, P, n)
        sum == t1 + v2m
        adj == IF sum % 2 = 1 THEN sum + n ELSE sum
        unew == (adj \div 2) % n
        vnew == (MulMod(v2m, P, n) - MulMod(unew, Q, n)) % n
    IN  IF bit THEN [U |-> unew, V |-> vnew] ELSE [U |-> u2m, V |-> v2m]

RECURSIVE LucasLoop(_, _, _, _, _, _)
\* for (i = bit_length - 1; i > 0; --i) of lucas_sequence_mod, uv being the
\* running (u0, v0).  Both branches of the inner IF are the same: its test
\* makes TLC compute each iteration before it starts the next one.
LucasLoop(uv, P, Q, k, n, i) ==
    IF i <= 0 THEN uv
    ELSE LET st == LucasStep(uv.U, uv.V, P, Q, n, TstBit(k, i - 1))
         IN  IF st.U = 0
             THEN LucasLoop(st, P, Q, k, n, i - 1)
             ELSE LucasLoop(st, P, Q, k, n, i - 1)

\* lucas_sequence_mod(u_k, v_k, P, Q, k, n)
lucas_sequence_mod(P, Q, k, n) ==
    IF k = 0 THEN [U |-> 0, V |-> 2]
    ELSE LucasLoop([U |-> 0, V |-> 2], P, Q, k, n, BitLength(k) - 1)

\* the safety limit of the D search: if (D_val > 1000) return false
DLimit == 1000

\* one iteration of the D search that leaves the loop with the last D it
\* tried when the safety limit is passed
DSearchStepLimitFound(n, D_val, sign) ==
    LET D == D_val * sign
        jacobi == Jacobi(D, n)
        sign2 == sign * (-1)
        D_val2 == IF sign2 = 1 THEN D_val + 2 ELSE D_val
    IN  IF jacobi = 0
        THEN IF Gcd(Abs(D), n) = n
             THEN [kind |-> "equal", D |-> D, D_val |-> D_val, sign |-> sign]
             ELSE [kind |-> "factor", D |-> D, D_val |-> D_val, sign |-> sign]
        ELSE IF jacobi = -1
        THEN [kind |-> "found", D |-> D, D_val |-> D_val, sign |-> sign]
        ELSE IF D_val2 > DLimit
        THEN [kind |-> "found", D |-> D, D_val |-> D_val2, sign |-> sign2]
        ELSE [kind |-> "next", D |-> D, D_val |-> D_val2, sign |-> sign2]

\* one iteration of the D search returning false for every D with Jacobi
\* symbol 0
DSearchStepNoEqual(n, D_val, sign) ==
    LET D == D_val * sign
        jacobi == Jacobi(D, n)
        sign2 == sign * (-1)
        D_val2 == IF sign2 = 1 THEN D_val + 2 ELSE D_val
    IN  IF jacobi = 0
        THEN [kind |-> "factor", D |-> D, D_val |-> D_val, sign |-> sign]
        ELSE IF jacobi = -1
        THEN [kind |-> "found", D |-> D, D_val |-> D_val, sign |-> sign]
        ELSE IF D_val2 > DLimit
        THEN [kind |-> "limit", D |-> D, D_val |-> D_val2, sign |-> sign2]
        ELSE [kind |-> "next", D |-> D, D_val |-> D_val2, sign |-> sign2]

\* one iteration of while (!found_D) with the running D_val and sign: how
\* it ends ("equal", "factor", "found", "limit", or "next" when the loop
\* goes on), the D it tried and the D_val and sign it leaves
DSearchStep(n, D_val, sign) ==
    LET D == D_val * sign
        jacobi == Jacobi(D, n)
        sign2 == sign * (-1)
        D_val2 == IF sign2 = 1 THEN D_val + 2 ELSE D_val
    IN  IF jacobi = 0
        THEN IF Gcd(Abs(D), n) = n
             THEN [kind |-> "equal", D |-> D, D_val |-> D_val, sign |-> sign]
             ELSE [kind |-> "factor", D |-> D, D_val |-> D_val, sign |-> sign]
        ELSE IF jacobi = -1
        THEN [kind |-> "found", D |-> D, D_val |-> D_val, sign |-> sign]
        ELSE IF D_val2 > DLimit
        THEN [kind |-> "limit", D |-> D, D_val |-> D_val2, sign |-> sign2]
        ELSE [kind |-> "next", D |-> D, D_val |-> D_val2, sign |-> sign2]

RECURSIVE SelectD(_, _, _)
\* the while (!found_D) loop of strong_lucas_test
SelectD(n, D_val, sign) ==
    LET st == DSearchStep(n, D_val, sign)
    IN  IF st.kind = "next" THEN SelectD(n, st.D_val, st.sign)
        ELSE [kind |-> st.kind, D |-> st.D]

RECURSIVE LucasVLoopAccepting(_, _, _, _)
\* the V_term loop falling through to return true
LucasVLoopAccepting(V_term, r, s, n) ==
    IF r >= s THEN TRUE
    ELSE IF V_term = 0 THEN TRUE
    ELSE IF r < s - 1
         THEN LucasVLoopAccepting((MulMod(V_term, V_term, n) + (-2)) % n,
                                  r + 1, s, n)
         ELSE LucasVLoopAccepting(V_term, r + 1, s, n)

RECURSIVE LucasVLoop(_, _, _, _)
\* the for (r = 0; r < s; ++r) loop of strong_lucas_test
LucasVLoop(V_term, r, s, n) ==
    IF r >= s THEN FALSE
    ELSE IF V_term = 0 THEN TRUE
    ELSE IF r < s - 1
         THEN LucasVLoop((MulMod(V_term, V_term, n) + (-2)) % n, r + 1, s, n)
         ELSE LucasVLoop(V_term, r + 1, s, n)

\* strong_lucas_test after the D search found D: Q, n + 1 = 2^s * d, the
\* U and V of lucas_sequence_mod and the value returned
LucasCheck(n, D) ==
    LET P == 1
        Q == TDivQ((P - 1) - D, 4)
        ds == Decompose(n + 1)
        UV == lucas_sequence_mod(P, Q, ds.d, n)
    IN  [P |-> P, Q |-> Q, d |-> ds.d, s |-> ds.s, U |-> UV.U, V |-> UV.V,
         passed |-> IF UV.U = 0 THEN TRUE ELSE LucasVLoop(UV.V, 0, ds.s, n)]

\* strong_lucas_test(n)
strong_lucas_test(n) ==
    LET sel == SelectD(n, 5, 1)
    IN  IF sel.kind = "equal" THEN ProbabPrime(n)
        ELSE IF sel.kind = "factor" THEN FALSE
        ELSE IF sel.kind = "limit" THEN FALSE
        ELSE LucasCheck(n, sel.D).passed

\* the trial-division loop taking every table entry that divides n for n
\* itself
TrialDivisionFirstHitPrime(n) ==
    IF \E i \in 1..num_small_primes :
          small_primes[i] # 2 /\ n % small_primes[i] = 0
    THEN "prime" ELSE "none"

\* the trial-division loop without its divisibility test
TrialDivisionEqualOnly(n) ==
    IF \E i \in 1..num_small_primes :
          small_primes[i] # 2 /\ n = small_primes[i]
    THEN "prime" ELSE "none"

\* the trial-division loop of BailliePSW::test: it returns at the first
\* table entry other than 2 that equals or divides n; "prime", "composite"
\* or "none" when the loop ends without returning
TrialDivision(n) ==
    LET hits == {i \in 1..num_small_primes :
                    /\ small_primes[i] # 2
                    /\ (n = small_primes[i] \/ n % small_primes[i] = 0)}
    IN  IF hits = {} THEN "none"
        ELSE LET first == CHOOSE i \in hits : \A j \in hits : i <= j
             IN  IF n = small_primes[first] THEN "prime" ELSE "composite"

RECURSIVE Base2Loop(_, _, _, _)
\* the squaring loop of the base-2 stage of BailliePSW::test
Base2Loop(x, r, s, n) ==
    IF r >= s THEN FALSE
    ELSE LET x2 == PowMod(x, 2, n)
         IN  IF x2 = n - 1 THEN TRUE
             ELSE IF x2 = 1 THEN FALSE
             ELSE Base2Loop(x2, r + 1, s, n)

\* the base-2 stage without the comparison of x with n - 1 before the
\* squaring loop
MRBase2PassedOnlyOne(n) ==
    LET ds == Decompose(n - 1)
        x == PowMod(2, ds.d, n)
    IN  IF x = 1 THEN TRUE
        ELSE Base2Loop(x, 1, ds.s, n)

\* mr_base2_passed of BailliePSW::test
MRBase2Passed(n) ==
    LET ds == Decompose(n - 1)
        x == PowMod(2, ds.d, n)
    IN  IF x = 1 \/ x = n - 1 THEN TRUE
        ELSE Base2Loop(x, 1, ds.s, n)

\* BailliePSW::test without the return for an even n
BailliePSWTestNoEven(n) ==
    IF n < 2 THEN [verdict |-> FALSE, stage |-> "small", draws |-> 0]
    ELSE IF n = 2 THEN [verdict |-> TRUE, stage |-> "small", draws |-> 0]
    ELSE LET td == TrialDivision(n)
         IN  IF td = "prime"
             THEN [verdict |-> TRUE, stage |-> "trial", draws |-> 0]
             ELSE IF td = "composite"
             THEN [verdict |-> FALSE, stage |-> "trial", draws |-> 0]
             ELSE IF PerfectSquare(n)
             THEN [verdict |-> FALSE, stage |-> "square", draws |-> 0]
             ELSE IF ~MRBase2Passed(n)
             THEN [verdict |-> FALSE, stage |-> "base2", draws |-> 0]
             ELSE [verdict |-> strong_lucas_test(n), stage |-> "lucas",
                   draws |-> 0]

\* BailliePSW::test(n, gmp_randstate): the verdict and the stage that
\* returned it; nothing is drawn from the random state
BailliePSWTest(n) ==
    IF n < 2 THEN [verdict |-> FALSE, stage |-> "small", draws |-> 0]
    ELSE IF n = 2 THEN [verdict |-> TRUE, stage |-> "small", draws |-> 0]
    ELSE IF n % 2 = 0 THEN [verdict |-> FALSE, stage |-> "even", draws |-> 0]
    ELSE LET td == TrialDivision(n)
         IN  IF td = "prime"
             THEN [verdict |-> TRUE, stage |-> "trial", draws |-> 0]
             ELSE IF td = "composite"
             THEN [verdict |-> FALSE, stage |-> "trial", draws |-> 0]
             ELSE IF PerfectSquare(n)
             THEN [verdict |-> FALSE, stage |-> "square", draws |-> 0]
             ELSE IF ~MRBase2Passed(n)
             THEN [verdict |-> FALSE, stage |-> "base2", draws |-> 0]
             ELSE [verdict |-> strong_lucas_test(n), stage |-> "lucas",
                   draws |-> 0]

(***************************************************************************)
(* PrimalityTester                                                         *)
(***************************************************************************)
MILLER_RABIN == "MILLER_RABIN"
BAILLIE_PSW == "BAILLIE_PSW"
TestType == {MILLER_RABIN, BAILLIE_PSW}

\* default of the parameter k of is_prime
DefaultK == 40

\* int bits_per_output = 64 of randbits
bits_per_output == 64

\* tested besides -NegN..MaxN: the end of the trial-division table and the
\* primes after it, Carmichael numbers, strong pseudoprimes to base 2 and
\* composites without a prime factor in the table
ExtraInputs ==
    {503, 507, 509, 511, 521, 523, 527, 529, 541, 561, 797, 1039, 1105, 1729,
     2047, 3277, 8191, 271441, 272483, 873181, 1194649}
Inputs == ((-NegN)..MaxN) \cup ExtraInputs

\* the round counts MillerRabin::test is explored with
RoundCounts == {-1, 0, 1, 2}

\* the random state is explored freely over the first FreeDraws witnesses
\* of a call: every explored round count has all its witness sequences
FreeDraws == CHOOSE m \in RoundCounts : \A j \in RoundCounts : j <= m

Min(a, b) == IF a < b THEN a ELSE b

\* the explored draws of mpz_urandomm for the witness of a round
Witnesses(n) == {a \in WitnessRange(n) : a <= MaxWitness}

\* the witness values the random state can yield to a call with k rounds:
\* the first FreeDraws draws are free, later draws repeat the last free one
WitnessStreams(n, k) ==
    { [i \in 1..k |-> w[Min(i, FreeDraws)]] :
        w \in [1..Min(k, FreeDraws) -> Witnesses(n)] }

\* random_odd setting bit bits instead of bit bits - 1
random_oddOffByOne(bits, r) ==
    SetBit(IF bits > 0 THEN SetBit(r, bits) ELSE r, 0)

\* MPZUtils::random_odd(result, bits, state): mpz_urandomb draws r in
\* 0..2^bits-1, then bit bits-1 and bit 0 are set
random_odd(bits, r) ==
    SetBit(IF bits > 0 THEN SetBit(r, bits - 1) ELSE r, 0)

\* the random state matters to a call only when it runs MillerRabin::test
Streams(n, type, k) ==
    IF type = BAILLIE_PSW THEN {<<>>} ELSE WitnessStreams(n, k)

\* the explored results of MPZUtils::random_odd(result, bits, state): the
\* draws up to MaxDraw and the largest draw, which has every bit set
Candidates(bits) ==
    {random_odd(bits, r) :
        r \in (0..Min(Pow2(bits) - 1, MaxDraw)) \cup {Pow2(bits) - 1}}

\* PrimalityTester::is_prime(n, type, k): the switch on type
is_prime(n, type, k, ws) ==
    IF type = MILLER_RABIN THEN MillerRabinTest(n, k, ws)
    ELSE IF type = BAILLIE_PSW THEN BailliePSWTest(n)
    ELSE MillerRabinTest(n, k, ws)

\* the table of generate_prime
gp_small_primes == <<2, 3, 5, 7, 11, 13, 17, 19, 23, 29, 31, 37, 41, 43, 47>>

RECURSIVE SmallPrimeOfSize(_, _)
\* the for loop of generate_prime over its table: the first entry of bit
\* length bits, 0 when the loop ends without returning
SmallPrimeOfSize(bits, i) ==
    IF i > Len(gp_small_primes) THEN 0
    ELSE IF BitLength(gp_small_primes[i]) = bits THEN gp_small_primes[i]
    ELSE SmallPrimeOfSize(bits, i + 1)

\* generate_prime before its sampling loop: the literal it returns, 0 when
\* it enters the loop
LiteralPrime(bits) ==
    IF bits <= 1 THEN 2
    ELSE IF bits < 8 THEN SmallPrimeOfSize(bits, 1)
    ELSE 0

VARIABLES
    pc,          \* "idle", "tested", "searching", "found", "rechecked",
                 \* "dsearch", "dfound", "lucasdone", "sequence"
    n,           \* argument n of the caller's last is_prime call
    type,        \* argument type of that call
    k,           \* round count MillerRabin::test received
    witnesses,   \* the witnesses a the last call drew, in order
    verdict,     \* what the last is_prime call returned
    stage,       \* the place of the test that returned the verdict
    repeated,    \* TRUE when the call before the last had the same arguments
    prevVerdict, \* verdict of the call before the last one, on the same n
    prevFail,    \* witness at which that call returned Composite, 0 if none
    bits,        \* argument bits of find_prime
    reqType,     \* argument type of find_prime
    result,      \* the mpz_t result of generate_prime
    sampled,     \* TRUE when result was produced by random_odd
    lucas,       \* the locals of a strong_lucas_test(n) call in progress
    seq,         \* arguments and outputs of a lucas_sequence_mod call
    lv,          \* arguments and output of a lucas_v_mod call
    prng,        \* a generator, the randbits call made on it and its result
    harness      \* continuous_operation: g_running and the running loop

vars == <<pc, n, type, k, witnesses, verdict, stage, repeated, prevVerdict,
          prevFail, bits, reqType, result, sampled, lucas, seq, lv, prng,
          harness>>

testVars == <<n, type, k, witnesses, verdict, stage, repeated, prevVerdict,
              prevFail>>
searchVars == <<bits, reqType, result, sampled>>
lucasVars == <<lucas, seq>>
toolVars == <<lv, prng, harness>>

\* strong_lucas_test before it is called: D_val = 5, sign = 1, no D tried;
\* U = V = -1 stands for lucas_sequence_mod not having been called
NoLucas ==
    [n |-> 0, D_val |-> 5, sign |-> 1, tried |-> <<>>, kind |-> "none",
     D |-> 0, P |-> 1, Q |-> 0, d |-> 0, s |-> 0, U |-> -1, V |-> -1,
     passed |-> FALSE]

NoSeq == [P |-> 0, Q |-> 0, k |-> 0, n |-> 0, U |-> 0, V |-> 0]

\* lucas_v_mod before it is called
NoLv == [P |-> 0, Q |-> 0, k |-> 0, n |-> 0, V |-> 0]

\* no generator constructed: no randbits call made, result holding 0 (an
\* mpz_t is held as the set of the positions of its 1 bits)
NoPrng == [gen |-> "none", k |-> 0, calls |-> 0, result |-> {}]

\* continuous_operation before main has chosen what to run: g_running is
\* constructed true
NoHarness ==
    [g_running |-> TRUE, run |-> "none", at |-> "main", iterations |-> 0,
     expired |-> FALSE, stopped_at |-> -1, resampled |-> FALSE,
     summary |-> "none"]

\* the witness the last call failed on, 0 when it did not fail in a round
FailingWitness ==
    IF ~verdict /\ Len(witnesses) > 0 THEN witnesses[Len(witnesses)] ELSE 0

Init ==
    /\ pc = "idle"
    /\ n = 0
    /\ type = MILLER_RABIN
    /\ k = DefaultK
    /\ witnesses = <<>>
    /\ verdict = FALSE
    /\ stage = "none"
    /\ repeated = FALSE
    /\ prevVerdict = FALSE
    /\ prevFail = 0
    /\ bits = 0
    /\ reqType = MILLER_RABIN
    /\ result = 0
    /\ sampled = FALSE
    /\ lucas = NoLucas
    /\ seq = NoSeq
    /\ lv = NoLv
    /\ prng = NoPrng
    /\ harness = NoHarness

\* the effect of a call whose test halves n itself, in place of the copy it
\* decomposes
CallHalvingInPlace(nn, tt, kk, ws, r) ==
    /\ n' = IF nn >= 5 /\ nn % 2 = 1 THEN Decompose(nn - 1).d ELSE nn
    /\ type' = tt
    /\ k' = kk
    /\ witnesses' = SubSeq(ws, 1, r.draws)
    /\ verdict' = r.verdict
    /\ stage' = r.stage

\* the effect of one is_prime(nn, tt, kk) call that drew from ws and
\* returned r
Call(nn, tt, kk, ws, r) ==
    /\ n' = nn
    /\ type' = tt
    /\ k' = kk
    /\ witnesses' = SubSeq(ws, 1, r.draws)
    /\ verdict' = r.verdict
    /\ stage' = r.stage

\* tester.is_prime(nn, tt, kk) on a fresh tester
IsPrime(nn, tt, kk) ==
    /\ pc = "idle"
    /\ \E ws \in Streams(nn, tt, kk) :
         \E r \in {is_prime(nn, tt, kk, ws)} : Call(nn, tt, kk, ws, r)
    /\ repeated' = FALSE
    /\ pc' = "tested"
    /\ UNCHANGED <<prevVerdict, prevFail>>
    /\ UNCHANGED searchVars
    /\ UNCHANGED lucasVars
    /\ UNCHANGED toolVars

\* the same call again, the random state having moved on
Repeat ==
    /\ pc = "tested"
    /\ ~repeated
    /\ \E nn \in {n}, tt \in {type}, kk \in {k} :
         \E ws \in Streams(nn, tt, kk) :
           \E r \in {is_prime(nn, tt, kk, ws)} : Call(nn, tt, kk, ws, r)
    /\ repeated' = TRUE
    /\ prevVerdict' = verdict
    /\ prevFail' = FailingWitness
    /\ UNCHANGED pc
    /\ UNCHANGED searchVars
    /\ UNCHANGED lucasVars
    /\ UNCHANGED toolVars

\* find_prime(result, b, t) up to the sampling loop of generate_prime
FindPrime(b, t) ==
    /\ pc = "idle"
    /\ bits' = b
    /\ reqType' = t
    /\ result' = LiteralPrime(b)
    /\ sampled' = FALSE
    /\ pc' = IF LiteralPrime(b) # 0 THEN "found" ELSE "searching"
    /\ UNCHANGED testVars
    /\ UNCHANGED lucasVars
    /\ UNCHANGED toolVars

\* one iteration of while (true) in generate_prime: random_odd, then
\* is_prime(result) with the default type and k
Sample ==
    /\ pc = "searching"
    /\ \E b \in {bits}, c \in Candidates(bits) :
         /\ result' = c
         /\ \E ws \in Streams(c, MILLER_RABIN, DefaultK) :
              \E r \in {is_prime(c, MILLER_RABIN, DefaultK, ws)} :
                pc' = IF r.verdict THEN "found" ELSE "searching"
    /\ sampled' = TRUE
    /\ UNCHANGED <<bits, reqType>>
    /\ UNCHANGED testVars
    /\ UNCHANGED lucasVars
    /\ UNCHANGED toolVars

\* the caller tests the prime it was given: is_prime(result, t)
Recheck(t) ==
    /\ pc = "found"
    /\ \E nn \in {result} :
         \E ws \in Streams(nn, t, DefaultK) :
           \E r \in {is_prime(nn, t, DefaultK, ws)} :
             Call(nn, t, DefaultK, ws, r)
    /\ repeated' = FALSE
    /\ pc' = "rechecked"
    /\ UNCHANGED <<prevVerdict, prevFail>>
    /\ UNCHANGED searchVars
    /\ UNCHANGED lucasVars
    /\ UNCHANGED toolVars

\* the odd n >= 3 strong_lucas_test is called with
LucasInputs == {m \in Inputs : m >= 3 /\ m % 2 = 1}

\* strong_lucas_test(nn) up to its D search
StrongLucasStart(nn) ==
    /\ pc = "idle"
    /\ lucas' = [NoLucas EXCEPT !.n = nn]
    /\ pc' = "dsearch"
    /\ UNCHANGED <<seq, testVars, searchVars, toolVars>>

\* one iteration of while (!found_D), with the returns it contains
DSearch ==
    /\ pc = "dsearch"
    /\ \E st \in {DSearchStep(lucas.n, lucas.D_val, lucas.sign)} :
         /\ lucas' = [lucas EXCEPT !.tried = Append(@, st.D),
                                   !.D_val = st.D_val,
                                   !.sign = st.sign,
                                   !.D = st.D,
                                   !.kind = st.kind,
                                   !.passed = IF st.kind = "equal"
                                              THEN ProbabPrime(lucas.n)
                                              ELSE FALSE]
         /\ pc' = IF st.kind = "next" THEN "dsearch"
                  ELSE IF st.kind = "found" THEN "dfound"
                  ELSE "lucasdone"
    /\ UNCHANGED <<seq, testVars, searchVars, toolVars>>

\* strong_lucas_test after its D search: Q, d, s, lucas_sequence_mod and
\* the checks of U and V_term
LucasFinish ==
    /\ pc = "dfound"
    /\ \E c \in {LucasCheck(lucas.n, lucas.D)} :
         lucas' = [lucas EXCEPT !.P = c.P, !.Q = c.Q, !.d = c.d, !.s = c.s,
                                !.U = c.U, !.V = c.V, !.passed = c.passed]
    /\ pc' = "lucasdone"
    /\ UNCHANGED <<seq, testVars, searchVars, toolVars>>

\* lucas_sequence_mod(u_k, v_k, P, Q, kk, nn)
LucasSequence(P, Q, kk, nn) ==
    /\ pc = "idle"
    /\ \E uv \in {lucas_sequence_mod(P, Q, kk, nn)} :
         seq' = [P |-> P, Q |-> Q, k |-> kk, n |-> nn, U |-> uv.U, V |-> uv.V]
    /\ pc' = "sequence"
    /\ UNCHANGED <<lucas, testVars, searchVars, toolVars>>

(***************************************************************************)
(* LCG::randbits and Xoshiro256pp::randbits (the same code in both).  An   *)
(* mpz_t is held as the set of the positions of its 1 bits, a uint64_t as  *)
(* a subset of 0..63.                                                      *)
(***************************************************************************)
Generators == {"LCG", "Xoshiro256pp"}

\* the values next_u64 is explored with: 0, 2^64 - 1, 2^63 and 1
WordPatterns ==
    {{}, 0..(bits_per_output - 1), {bits_per_output - 1}, {0}}

\* the sizes randbits is called with: none, single bits and both sides of
\* one, two and three 64-bit outputs
RandbitsSizes == {-1, 0, 1, 2, 63, 64, 65, 127, 128, 129, 191, 192}

\* the outputs next_u64 can yield to one randbits call
WordStreams == [1..MaxWords -> WordPatterns]

MaxOf(S) == CHOOSE x \in S : \A y \in S : y <= x

\* mpz_sizeinbase(x, 2): 1 for x = 0
SizeInBase2(S) == IF S = {} THEN 1 ELSE MaxOf(S) + 1

\* mpz_mul_2exp(x, x, e)
MulExp(S, e) == {b + e : b \in S}

\* mpz_fdiv_q_2exp(x, x, e) for x >= 0
FDivQExp(S, e) == {b - e : b \in {c \in S : c >= e}}

RECURSIVE AddLoop(_, _, _, _, _, _)
\* binary addition from bit i upwards with the carry into bit i
AddLoop(S, W, i, carry, top, acc) ==
    IF i > top THEN (IF carry = 1 THEN acc \cup {i} ELSE acc)
    ELSE LET sum == (IF i \in S THEN 1 ELSE 0) + (IF i \in W THEN 1 ELSE 0)
                        + carry
         IN  IF sum % 2 = 1
             THEN AddLoop(S, W, i + 1, sum \div 2, top, acc \cup {i})
             ELSE AddLoop(S, W, i + 1, sum \div 2, top, acc)

\* mpz_add_ui(x, x, w): without a common 1 bit no carry arises and the sum
\* has the 1 bits of both
AddUi(S, W) ==
    IF S \cap W = {} THEN S \cup W
    ELSE AddLoop(S, W, 0, 0, MaxOf(S \cup W), {})

\* std::ceil(static_cast<double>(k) / bits_per_output) for k >= 1
NumOutputs(kk) ==
    IF kk % bits_per_output = 0 THEN kk \div bits_per_output
    ELSE kk \div bits_per_output + 1

RECURSIVE RandbitsLoop(_, _, _, _)
\* for (i = 0; i < num_outputs; ++i): shift result by 64 and add the next
\* output
RandbitsLoop(res, ws, i, num_outputs) ==
    IF i >= num_outputs THEN res
    ELSE RandbitsLoop(AddUi(MulExp(res, bits_per_output), ws[i + 1]), ws,
                      i + 1, num_outputs)

\* randbits without the final mpz_setbit
randbitsNoSetBit(kk, ws) ==
    IF kk <= 0 THEN [result |-> {}, calls |-> 0]
    ELSE LET num_outputs == NumOutputs(kk)
             all == RandbitsLoop({}, ws, 0, num_outputs)
             bits_generated == num_outputs * bits_per_output
             trimmed == IF bits_generated > kk
                        THEN FDivQExp(all, bits_generated - kk) ELSE all
         IN  [result |-> trimmed, calls |-> num_outputs]

\* randbits(result, k) on a generator whose next_u64 yields ws[1], ws[2],
\* ...: the result and the number of next_u64 calls made
randbits(kk, ws) ==
    IF kk <= 0 THEN [result |-> {}, calls |-> 0]
    ELSE LET num_outputs == NumOutputs(kk)
             all == RandbitsLoop({}, ws, 0, num_outputs)
             bits_generated == num_outputs * bits_per_output
             trimmed == IF bits_generated > kk
                        THEN FDivQExp(all, bits_generated - kk) ELSE all
         IN  [result |-> trimmed \cup {kk - 1}, calls |-> num_outputs]

\* gen.randbits(result, kk) on a new generator gen
Randbits(g, kk) ==
    /\ pc = "idle"
    /\ kk <= MaxWords * bits_per_output
    /\ \E ws \in WordStreams :
         \E r \in {randbits(kk, ws)} :
           prng' = [gen |-> g, k |-> kk, calls |-> r.calls,
                    result |-> r.result]
    /\ pc' = "randbits"
    /\ UNCHANGED <<lv, harness, testVars, searchVars, lucasVars>>

(***************************************************************************)
(* BailliePSW::lucas_v_mod                                                 *)
(***************************************************************************)
RECURSIVE LucasVModLoop(_, _, _, _, _, _, _)
\* while (k_copy > 1): v0 and v1 are updated from d and k_copy is halved; d
\* is assigned before the loop only
LucasVModLoop(d, v0, v1, k_copy, P, Q, nn) ==
    IF k_copy <= 1 THEN d
    ELSE LET t1 == (d * d) % nn
             t2 == (P * d) % nn
             t3 == (Q * v0) % nn
             t3b == (Q * v1) % nn
         IN  LucasVModLoop(d, (t1 - t3) % nn, (t2 - t3b) % nn, k_copy \div 2,
                           P, Q, nn)

\* lucas_v_mod(v_k, P, Q, kk, nn): the value left in v_k
lucas_v_mod(P, Q, kk, nn) ==
    IF kk = 0 THEN 2
    ELSE IF kk = 1 THEN P
    ELSE LucasVModLoop(P, 2, P, kk - 1, P, Q, nn)

\* a call lucas_v_mod(v_k, P, Q, kk, nn)
LucasVMod(P, Q, kk, nn) ==
    /\ pc = "idle"
    /\ lv' = [P |-> P, Q |-> Q, k |-> kk, n |-> nn,
              V |-> lucas_v_mod(P, Q, kk, nn)]
    /\ pc' = "vsequence"
    /\ UNCHANGED <<prng, harness, testVars, searchVars, lucasVars>>

(***************************************************************************)
(* continuous_operation: main after std::signal(SIGINT, signal_handler),   *)
(* run_prng, run_primality and the handler, which can run between any two  *)
(* steps of the others.                                                    *)
(***************************************************************************)
Algorithms == {"lcg", "xoshiro", "miller_rabin", "baillie_psw"}

\* main: the arguments are valid and the algorithm is known, so run_prng or
\* run_primality is entered
HarnessStart(algorithm) ==
    /\ pc = "idle"
    /\ harness' = [harness EXCEPT
                     !.run = algorithm,
                     !.at = IF algorithm \in {"lcg", "xoshiro"}
                            THEN "check" ELSE "generating"]
    /\ pc' = "harness"
    /\ UNCHANGED <<lv, prng, testVars, searchVars, lucasVars>>

\* signal_handler(SIGINT)
SignalHandler ==
    /\ pc = "harness"
    /\ harness.at # "done"
    /\ harness' = [harness EXCEPT
                     !.g_running = FALSE,
                     !.stopped_at = IF harness.g_running
                                    THEN harness.iterations
                                    ELSE harness.stopped_at]
    /\ UNCHANGED <<pc, lv, prng, testVars, searchVars, lucasVars>>

\* run_primality, inside tester.generate_prime: a candidate is rejected
GenerateResamples ==
    /\ pc = "harness"
    /\ harness.at = "generating"
    /\ harness' = [harness EXCEPT !.resampled = TRUE]
    /\ UNCHANGED <<pc, lv, prng, testVars, searchVars, lucasVars>>

\* run_primality: tester.generate_prime returns
GenerateReturns ==
    /\ pc = "harness"
    /\ harness.at = "generating"
    /\ harness' = [harness EXCEPT !.at = "check"]
    /\ UNCHANGED <<pc, lv, prng, testVars, searchVars, lucasVars>>

\* while (g_running && steady_clock::now() < end_time), read without
\* looking at g_running
LoopCheckIgnoresFlag ==
    /\ pc = "harness"
    /\ harness.at = "check"
    /\ \E late \in BOOLEAN :
         LET over == harness.expired \/ late
                         \/ harness.iterations >= MaxIterations
         IN  harness' = [harness EXCEPT
                           !.expired = over,
                           !.at = IF ~over THEN "op" ELSE "summary"]
    /\ UNCHANGED <<pc, lv, prng, testVars, searchVars, lucasVars>>

\* while (g_running && steady_clock::now() < end_time): the clock is past
\* end_time once it was, and at the latest after MaxIterations iterations
LoopCheck ==
    /\ pc = "harness"
    /\ harness.at = "check"
    /\ \E late \in BOOLEAN :
         LET over == harness.expired \/ late
                         \/ harness.iterations >= MaxIterations
         IN  harness' = [harness EXCEPT
                           !.expired = IF harness.g_running THEN over
                                       ELSE harness.expired,
                           !.at = IF harness.g_running /\ ~over
                                  THEN "op" ELSE "summary"]
    /\ UNCHANGED <<pc, lv, prng, testVars, searchVars, lucasVars>>

\* the loop body: prng.randbits(number, bits) or tester.is_prime(prime,
\* type), then iterations++ and the reports
Operation ==
    /\ pc = "harness"
    /\ harness.at = "op"
    /\ harness' = [harness EXCEPT
                     !.iterations = harness.iterations + 1,
                     !.at = "check"]
    /\ UNCHANGED <<pc, lv, prng, testVars, searchVars, lucasVars>>

\* after the loop: "Completed ... iterations in ... seconds (... ops/sec)".
\* When less than a second has passed elapsed is 0 and the rate is the
\* conversion of an infinity or a NaN to uint64_t: some number is printed.
Summary ==
    /\ pc = "harness"
    /\ harness.at = "summary"
    /\ \E whole \in BOOLEAN :
         harness' = [harness EXCEPT
                       !.summary = IF harness.expired \/ whole
                                   THEN "rate" ELSE "unspecified rate",
                       !.at = "done"]
    /\ UNCHANGED <<pc, lv, prng, testVars, searchVars, lucasVars>>

\* the steps of the program, the handler apart
HarnessStep ==
    \/ GenerateResamples
    \/ GenerateReturns
    \/ LoopCheck
    \/ Operation
    \/ Summary

Next ==
    \/ \E nn \in Inputs, tt \in TestType, kk \in RoundCounts : IsPrime(nn, tt, kk)
    \/ Repeat
    \/ \E b \in 0..MaxBits, t \in TestType : FindPrime(b, t)
    \/ Sample
    \/ \E t \in TestType : Recheck(t)
    \/ \E nn \in LucasInputs : StrongLucasStart(nn)
    \/ DSearch
    \/ LucasFinish
    \/ \E P \in 1..MaxP, Q \in (-MaxQ)..MaxQ, kk \in 0..MaxIndex,
          nn \in {m \in 3..MaxN : m % 2 = 1} : LucasSequence(P, Q, kk, nn)
    \/ \E g \in Generators, kk \in RandbitsSizes : Randbits(g, kk)
    \/ \E P \in 1..MaxP, Q \in (-MaxQ)..MaxQ, kk \in 0..MaxIndex,
          nn \in 1..MaxN : LucasVMod(P, Q, kk, nn)
    \/ \E algorithm \in Algorithms : HarnessStart(algorithm)
    \/ SignalHandler
    \/ HarnessStep

Spec == Init /\ [][Next]_vars

\* the primality oracle alone: is_prime calls on a tester
NextOracle ==
    \/ \E nn \in Inputs, tt \in TestType, kk \in RoundCounts : IsPrime(nn, tt, kk)
    \/ Repeat

SpecOracle == Init /\ [][NextOracle]_vars

\* the prime search alone: find_prime and the caller's test of its result
NextSearch ==
    \/ \E b \in 0..MaxBits, t \in TestType : FindPrime(b, t)
    \/ Sample
    \/ \E t \in TestType : Recheck(t)

SpecSearch == Init /\ [][NextSearch]_vars

\* a draw of random_odd that is a prime of the requested size, whatever
\* is_prime then says about it
DrawsPrime ==
    /\ pc = "searching"
    /\ \E c \in Candidates(bits) : Prime(c) /\ result' = c
    /\ pc' \in {"searching", "found"}
    /\ sampled' = TRUE
    /\ UNCHANGED <<bits, reqType>>
    /\ UNCHANGED testVars
    /\ UNCHANGED lucasVars
    /\ UNCHANGED toolVars

\* the prime search with a fair sampler: mpz_urandomb is uniform, so while
\* the loop keeps running random_odd eventually draws a prime of the size
SpecSearchFair == SpecSearch /\ WF_vars(DrawsPrime)

\* the strong Lucas test alone: strong_lucas_test and lucas_sequence_mod
NextLucas ==
    \/ \E nn \in LucasInputs : StrongLucasStart(nn)
    \/ DSearch
    \/ LucasFinish
    \/ \E P \in 1..MaxP, Q \in (-MaxQ)..MaxQ, kk \in 0..MaxIndex,
          nn \in {m \in 3..MaxN : m % 2 = 1} : LucasSequence(P, Q, kk, nn)

SpecLucas == Init /\ [][NextLucas]_vars

\* the strong Lucas test with its D search running: while (!found_D) is
\* sequential code, an iteration that can run does run
SpecLucasFair == SpecLucas /\ WF_vars(DSearch)

\* the generators alone: randbits calls
NextPrng == \E g \in Generators, kk \in RandbitsSizes : Randbits(g, kk)

SpecPrng == Init /\ [][NextPrng]_vars

\* lucas_v_mod alone
NextLucasV ==
    \E P \in 1..MaxP, Q \in (-MaxQ)..MaxQ, kk \in 0..MaxIndex,
       nn \in 1..MaxN : LucasVMod(P, Q, kk, nn)

SpecLucasV == Init /\ [][NextLucasV]_vars

\* continuous_operation alone
NextHarness ==
    \/ \E algorithm \in Algorithms : HarnessStart(algorithm)
    \/ SignalHandler
    \/ HarnessStep

SpecHarness == Init /\ [][NextHarness]_vars

\* the program keeps running, and generate_prime draws a candidate that is
\* accepted
SpecHarnessFair ==
    SpecHarness /\ WF_vars(HarnessStep) /\ WF_vars(GenerateReturns)

(***************************************************************************)
(* Properties of the primality oracle (checked under SpecOracle) and of    *)
(* the prime search (checked under SpecSearch).                            *)
(***************************************************************************)

\* n is a strong pseudoprime to base 2: an odd composite n = 2^s * d + 1
\* with 2^d = 1 or 2^(d * 2^r) = -1 modulo n for some r < s
StrongPseudoprime2(m) ==
    /\ m > 2
    /\ m % 2 = 1
    /\ ~Prime(m)
    /\ LET ds == Decompose(m - 1)
       IN  \/ PowMod(2, ds.d, m) = 1
           \/ \E r \in 0..(ds.s - 1) : PowMod(2, ds.d * Pow2(r), m) = m - 1

\* C1: BailliePSW::test returns ProbablyPrime for every prime n, those
\* above the trial-division table (n > 509) included: a Composite verdict
\* for n >= 2 means that n is composite.
C1_BPSWAcceptsEveryPrime ==
    (pc = "tested" /\ type = BAILLIE_PSW /\ Prime(n)) => verdict

\* C2: MillerRabin::test returns ProbablyPrime for every prime n, every
\* round count k >= 1 and every choice of witnesses; whenever it returns
\* Composite for n >= 2, n is composite.
C2_MRAcceptsEveryPrime ==
    (pc = "tested" /\ type = MILLER_RABIN) =>
        /\ (k >= 1 /\ Prime(n)) => verdict
        /\ (n >= 2 /\ ~verdict) => ~Prime(n)

\* a prime above the trial-division table passed two rounds with two
\* different witnesses
C2_Witness ==
    /\ pc = "tested"
    /\ type = MILLER_RABIN
    /\ k = 2
    /\ Prime(n)
    /\ n > 509
    /\ Len(witnesses) = 2
    /\ witnesses[1] # witnesses[2]
    /\ verdict

C4_RepeatedCallsAgree ==
    (pc = "tested" /\ repeated /\ (type = MILLER_RABIN => k >= 1)) =>
        verdict = prevVerdict

\* C4 amended: a repeated Baillie-PSW call returns the same verdict; a
\* prime passes both Miller-Rabin calls for k >= 1; a number Miller-Rabin
\* reported Composite is composite, and it is reported Composite again by
\* every call that draws the witness the earlier call failed on.
C4_RepeatedCallsAmended ==
    (pc = "tested" /\ repeated) =>
        /\ type = BAILLIE_PSW => verdict = prevVerdict
        /\ (type = MILLER_RABIN /\ k <= 0) => verdict = prevVerdict
        /\ (type = MILLER_RABIN /\ k >= 1 /\ Prime(n)) =>
               (verdict /\ prevVerdict)
        /\ (type = MILLER_RABIN /\ n >= 2 /\ ~prevVerdict) => ~Prime(n)
        /\ (type = MILLER_RABIN /\ prevFail # 0
              /\ \E i \in 1..Len(witnesses) : witnesses[i] = prevFail) =>
               ~verdict

\* the repeated call passed a round with another witness and then drew the
\* witness the first call had failed on
C4_Witness ==
    /\ pc = "tested"
    /\ repeated
    /\ type = MILLER_RABIN
    /\ ~prevVerdict
    /\ prevFail # 0
    /\ Len(witnesses) = 2
    /\ witnesses[1] # prevFail
    /\ witnesses[2] = prevFail
    /\ ~verdict

\* C5: the integer find_prime(result, bits, alg) returns has bit length
\* bits, and is_prime(result, alg) returns ProbablyPrime, for either alg.
C5_FindPrimeRoundTrip ==
    (pc = "rechecked" /\ type = reqType /\ bits >= 1) =>
        (BitLength(result) = bits /\ verdict)

\* C6: for both algorithms is_prime(2) and is_prime(3) return
\* ProbablyPrime, and is_prime(n) never returns ProbablyPrime for n = 1,
\* n = 0 or a negative n.
C6_BoundaryVerdicts ==
    pc = "tested" =>
        /\ n \in {2, 3} => verdict
        /\ n <= 1 => ~verdict

\* Baillie-PSW accepted 3 in its trial-division loop
C6_Witness ==
    /\ pc = "tested"
    /\ type = BAILLIE_PSW
    /\ n = 3
    /\ stage = "trial"
    /\ verdict

\* C7: for every even n > 2 both tests return Composite at their evenness
\* test, for any k: no witness is drawn and no later stage runs.
C7_EvenIsComposite ==
    (pc = "tested" /\ n > 2 /\ n % 2 = 0) =>
        /\ ~verdict
        /\ witnesses = <<>>
        /\ stage = "even"

\* Miller-Rabin with two rounds rejected an even n > 2 without a draw
C7_Witness ==
    /\ pc = "tested"
    /\ type = MILLER_RABIN
    /\ k = 2
    /\ n > 2
    /\ n % 2 = 0
    /\ ~verdict
    /\ witnesses = <<>>

C9_InvalidRoundCount ==
    (pc = "tested" /\ type = MILLER_RABIN /\ k <= 0
       /\ n >= 5 /\ n % 2 = 1 /\ ~Prime(n)) => ~verdict

\* C10: for 1 <= bits < 8 generate_prime / find_prime returns a literal of
\* bit length bits and never samples.
C10_SmallBitsLiteral ==
    (pc # "idle" /\ bits >= 1 /\ bits < 8) =>
        /\ pc # "searching"
        /\ ~sampled
        /\ BitLength(result) = bits

\* C11: every candidate the sampling path submits to the oracle
\* (random_odd with bits >= 2) is odd, has bit bits - 1 set and has bit
\* length bits, so an integer returned from that path is an odd bits-bit
\* number.
C11_CandidatesOddExactLength ==
    (sampled /\ bits >= 2) =>
        /\ result % 2 = 1
        /\ TstBit(result, bits - 1)
        /\ BitLength(result) = bits

\* the draw with every bit set was submitted to the oracle and rejected,
\* and the loop goes on
C11_Witness ==
    /\ pc = "searching"
    /\ sampled
    /\ bits >= 8
    /\ result = Pow2(bits) - 1

\* C12: the integer find_prime(result, bits, BAILLIE_PSW) returns is odd
\* and MillerRabin::test(result, 40) reports it ProbablyPrime under every
\* fresh choice of witnesses.
C12_CrossAlgorithmAgreement ==
    (pc = "rechecked" /\ reqType = BAILLIE_PSW /\ type = MILLER_RABIN
       /\ bits >= 2) =>
        (result % 2 = 1 /\ verdict)

\* the bases a of [2, m - 2] with which one round of the witness loop of
\* MillerRabin::test(m, k) passes
PassingBases(m) ==
    LET ds == Decompose(m - 1)
    IN  {a \in WitnessRange(m) : MRRound(m, ds.d, ds.s, a)}

\* C13: for every odd composite n >= 5 at most one quarter of the bases of
\* [2, n - 2] make a single round pass, and a one-round call returns
\* ProbablyPrime exactly when it draws one of them; k independent uniform
\* draws therefore all pass with probability at most 4^(-k).
C13_QuarterOfBasesPass ==
    (pc = "tested" /\ type = MILLER_RABIN /\ k = 1 /\ ~repeated
       /\ n >= 5 /\ n % 2 = 1 /\ n <= MaxCountN /\ ~Prime(n)) =>
        /\ 4 * Cardinality(PassingBases(n)) <= Cardinality(WitnessRange(n))
        /\ verdict <=> witnesses[1] \in PassingBases(n)

\* a one-round call on an odd composite drew one of its passing bases and
\* returned ProbablyPrime
C13_Witness ==
    /\ pc = "tested"
    /\ type = MILLER_RABIN
    /\ k = 1
    /\ ~repeated
    /\ n >= 5
    /\ n % 2 = 1
    /\ n <= MaxCountN
    /\ ~Prime(n)
    /\ verdict
    /\ witnesses[1] \in PassingBases(n)

\* C14: for every bits >= 2 the sampling loop of generate_prime, which has
\* no cap on attempts and no failure path, is eventually left with a
\* candidate the oracle accepted, provided the sampler is fair.
C14_SearchTerminates ==
    (pc = "searching" /\ bits >= 2) ~> (pc = "found")

\* the loop was left with a sampled prime of the requested size
C14_Witness ==
    /\ pc = "found"
    /\ sampled
    /\ bits >= 2
    /\ BitLength(result) = bits
    /\ Prime(result)

(***************************************************************************)
(* The discriminant search of strong_lucas_test                            *)
(***************************************************************************)
\* the i-th term of 5, -7, 9, -11, 13, ...: magnitude 3 + 2i, positive
\* for odd i
SelfridgeD(i) == IF i % 2 = 1 THEN 3 + 2 * i ELSE -(3 + 2 * i)

\* strong_lucas_test has left its D search
DSearchOver == pc \in {"dfound", "lucasdone"}

\* C15: the values of D the search has tried, in order, are the first
\* terms of 5, -7, 9, -11, 13, ..., and a search that ends with a D of
\* Jacobi symbol -1 found it as the first such term of that sequence.
C15_SelfridgeOrder ==
    (pc \in {"dsearch", "dfound", "lucasdone"}) =>
        /\ \A i \in 1..Len(lucas.tried) : lucas.tried[i] = SelfridgeD(i)
        /\ (DSearchOver /\ lucas.kind = "found") =>
               /\ Jacobi(lucas.D, lucas.n) = -1
               /\ \A i \in 1..(Len(lucas.tried) - 1) :
                      Jacobi(SelfridgeD(i), lucas.n) # -1

\* C16: once a D with Jacobi symbol -1 is selected, D is 1 modulo 4 and the
\* Q strong_lucas_test computes is exactly (1 - D) / 4, so that
\* P^2 - 4Q = D with P = 1.
C16_ExactQ ==
    (pc = "lucasdone" /\ lucas.kind = "found") =>
        /\ (lucas.D - 1) % 4 = 0
        /\ 4 * lucas.Q = 1 - lucas.D
        /\ lucas.P = 1
        /\ lucas.P * lucas.P - 4 * lucas.Q = lucas.D

(***************************************************************************)
(* The Lucas sequences                                                     *)
(***************************************************************************)
RECURSIVE LucasU(_, _, _, _)
\* U_j mod m of U_0 = 0, U_1 = 1, U_{j+1} = P * U_j - Q * U_{j-1}
LucasU(P, Q, j, m) ==
    IF j = 0 THEN 0
    ELSE IF j = 1 THEN 1 % m
    ELSE (P * LucasU(P, Q, j - 1, m) - Q * LucasU(P, Q, j - 2, m)) % m

RECURSIVE LucasV(_, _, _, _)
\* V_j mod m of V_0 = 2, V_1 = P, V_{j+1} = P * V_j - Q * V_{j-1}
LucasV(P, Q, j, m) ==
    IF j = 0 THEN 2 % m
    ELSE IF j = 1 THEN P % m
    ELSE (P * LucasV(P, Q, j - 1, m) - Q * LucasV(P, Q, j - 2, m)) % m

\* C17: for odd n >= 3 and k >= 0, lucas_sequence_mod(U, V, P, Q, k, n)
\* returns U_k mod n and V_k mod n of the Lucas sequences of P and Q; in
\* particular (0, 2) for k = 0 and (1, P) for k = 1.
C17_LucasSequence ==
    (pc = "sequence") =>
        /\ seq.U = LucasU(seq.P, seq.Q, seq.k, seq.n)
        /\ seq.V = LucasV(seq.P, seq.Q, seq.k, seq.n)

\* x / 2 modulo the odd m, for x in 0..m-1
HalfMod(x, m) == IF x % 2 = 0 THEN x \div 2 ELSE (x + m) \div 2

\* from (U_j, V_j, Q^j) modulo m to the same at index 2j, or 2j + 1 when
\* bit is set: U_2j = U_j V_j, V_2j = V_j^2 - 2 Q^j,
\* U_{j+1} = (P U_j + V_j) / 2, V_{j+1} = ((P^2 - 4Q) U_j + P V_j) / 2
LadderStep(st, P, Q, m, bit) ==
    LET u2 == MulMod(st.U, st.V, m)
        v2 == (MulMod(st.V, st.V, m) - 2 * st.Qj) % m
        q2 == MulMod(st.Qj, st.Qj, m)
        u3 == HalfMod((MulMod(P, u2, m) + v2) % m, m)
        v3 == HalfMod((MulMod(P * P - 4 * Q, u2, m) + MulMod(P, v2, m)) % m, m)
    IN  IF bit THEN [U |-> u3, V |-> v3, Qj |-> MulMod(q2, Q, m)]
        ELSE [U |-> u2, V |-> v2, Qj |-> q2]

RECURSIVE Ladder(_, _, _, _, _, _)
\* the ladder over the bits i-1 .. 0 of j, every bit applied; the test
\* of the inner IF makes each step be computed before the next starts
Ladder(st, P, Q, j, m, i) ==
    IF i <= 0 THEN st
    ELSE LET nx == LadderStep(st, P, Q, m, TstBit(j, i - 1))
         IN  IF nx.U = 0
             THEN Ladder(nx, P, Q, j, m, i - 1)
             ELSE Ladder(nx, P, Q, j, m, i - 1)

\* (U_j mod m, V_j mod m) for odd m >= 3 and j >= 0
LucasUV(P, Q, j, m) ==
    Ladder([U |-> 0, V |-> 2 % m, Qj |-> 1 % m], P, Q, j, m,
           IF j = 0 THEN 0 ELSE BitLength(j))

\* the strong Lucas condition of n for the parameters P and Q, with
\* n + 1 = 2^s * d
StrongLucasCondition(nn, P, Q, d, s) ==
    \/ LucasUV(P, Q, d, nn).U = 0
    \/ \E r \in 0..(s - 1) : LucasUV(P, Q, d * Pow2(r), nn).V = 0

\* C18: strong_lucas_test(n) that selected D and Q returns ProbablyPrime
\* exactly when U_d = 0 or V_{d * 2^r} = 0 modulo n for some 0 <= r < s,
\* for the Lucas sequences of P = 1 and the selected Q.
C18_StrongLucasCondition ==
    (pc = "lucasdone" /\ lucas.kind = "found") =>
        (lucas.passed <=>
            StrongLucasCondition(lucas.n, lucas.P, lucas.Q, lucas.d, lucas.s))

(***************************************************************************)
(* The ends of the D search                                                *)
(***************************************************************************)
\* C19: when the search meets a D with Jacobi symbol 0, strong_lucas_test
\* returns without evaluating a Lucas sequence: the primality of n when
\* gcd(|D|, n) = n, where n = |D|, and Composite otherwise, where n has a
\* proper factor in common with |D|; Composite is returned on this branch
\* only for composite n.
C19_JacobiZeroBranch ==
    (pc = "lucasdone" /\ lucas.kind \in {"equal", "factor"}) =>
        /\ Jacobi(lucas.D, lucas.n) = 0
        /\ lucas.U = NoLucas.U /\ lucas.V = NoLucas.V
        /\ (lucas.kind = "equal") =>
               /\ lucas.n = Abs(lucas.D)
               /\ lucas.passed <=> Prime(lucas.n)
        /\ (lucas.kind = "factor") =>
               /\ ~lucas.passed
               /\ Gcd(Abs(lucas.D), lucas.n) > 1
               /\ Gcd(Abs(lucas.D), lucas.n) < lucas.n
        /\ ~lucas.passed => ~Prime(lucas.n)

\* a search that went past its first D and then met a D sharing a proper
\* factor with n
C19_Witness ==
    /\ pc = "lucasdone"
    /\ lucas.kind = "factor"
    /\ Len(lucas.tried) >= 2
    /\ ~lucas.passed
    /\ ~Prime(lucas.n)

\* C20: for every odd n >= 3, perfect squares included, the D search is
\* eventually left, and it is left with a D of Jacobi symbol -1, with a D
\* of Jacobi symbol 0, or with D_val above the limit and the verdict
\* Composite; the limit never gives ProbablyPrime.
C20_DSearchTerminates ==
    /\ (pc = "dsearch" /\ lucas.n >= 3) ~> DSearchOver
    /\ [](DSearchOver =>
            /\ lucas.kind \in {"found", "equal", "factor", "limit"}
            /\ (lucas.kind = "found") => Jacobi(lucas.D, lucas.n) = -1
            /\ (lucas.kind \in {"equal", "factor"}) =>
                   Jacobi(lucas.D, lucas.n) = 0
            /\ (lucas.kind = "limit") =>
                   /\ lucas.D_val > DLimit
                   /\ pc = "lucasdone"
                   /\ ~lucas.passed)
    /\ [](pc = "dsearch" => lucas.D_val <= DLimit)

\* the search on a perfect square ended on the limit with Composite
C20_Witness ==
    /\ pc = "lucasdone"
    /\ lucas.kind = "limit"
    /\ PerfectSquare(lucas.n)
    /\ lucas.D_val > DLimit
    /\ ~lucas.passed

(***************************************************************************)
(* The rounds of MillerRabin::test                                         *)
(***************************************************************************)
\* the criterion of a round with witness a on odd m, m - 1 = 2^s * d:
\* a^d = 1 or a^(d * 2^r) = m - 1 modulo m for some 0 <= r < s
RoundCriterion(m, a) ==
    LET ds == Decompose(m - 1)
    IN  \/ PowMod(a, ds.d, m) = 1
        \/ \E r \in 0..(ds.s - 1) : PowMod(a, ds.d * Pow2(r), m) = m - 1

\* C21: on odd n >= 5, every round MillerRabin::test ran before its last
\* one met the round criterion; the call returns Composite exactly when
\* the last round it ran does not meet it, and ProbablyPrime exactly when
\* it ran all k rounds and each met it.
C21_RoundCriterion ==
    (pc = "tested" /\ type = MILLER_RABIN /\ n >= 5 /\ n % 2 = 1) =>
        /\ \A i \in 1..(Len(witnesses) - 1) : RoundCriterion(n, witnesses[i])
        /\ ~verdict <=>
              /\ Len(witnesses) >= 1
              /\ ~RoundCriterion(n, witnesses[Len(witnesses)])
        /\ verdict <=>
              /\ Len(witnesses) = (IF k > 0 THEN k ELSE 0)
              /\ \A i \in 1..Len(witnesses) : RoundCriterion(n, witnesses[i])

\* a composite passed its first round in the squaring loop, the power a^d
\* being neither 1 nor n - 1, and was returned Composite by the second
C21_Witness ==
    /\ pc = "tested"
    /\ type = MILLER_RABIN
    /\ n >= 5 /\ n % 2 = 1
    /\ k = 2
    /\ Len(witnesses) = 2
    /\ ~verdict
    /\ PowMod(witnesses[1], Decompose(n - 1).d, n) \notin {1, n - 1}
    /\ RoundCriterion(n, witnesses[1])

(***************************************************************************)
(* The stages of BailliePSW::test                                          *)
(***************************************************************************)
\* C22: a Baillie-PSW call on odd n >= 5 that got past trial division and
\* the square check goes on to the Lucas stage exactly when
\* MillerRabin::test with k = 1 that draws the witness 2 returns
\* ProbablyPrime, and returns Composite from the base-2 stage otherwise.
C22_Base2IsMillerRabinRound ==
    (pc = "tested" /\ type = BAILLIE_PSW /\ n >= 5 /\ n % 2 = 1
       /\ stage \in {"base2", "lucas"}) =>
        /\ (stage = "lucas") <=> MillerRabinTest(n, 1, <<2>>).verdict
        /\ (stage = "lucas") <=> RoundCriterion(n, 2)
        /\ (stage = "base2") => ~verdict

\* a composite without a factor in the table that is no square and fails
\* the round with witness 2 was returned Composite by the base-2 stage
C22_Witness ==
    /\ pc = "tested"
    /\ type = BAILLIE_PSW
    /\ stage = "base2"
    /\ ~verdict
    /\ ~Prime(n)
    /\ ~MillerRabinTest(n, 1, <<2>>).verdict

\* the odd entries of the small-prime table
OddTable == {small_primes[i] : i \in 1..num_small_primes} \ {2}

\* C23: on odd n >= 3, Baillie-PSW returns ProbablyPrime from trial
\* division when n is a table entry and Composite from trial division when
\* n is a proper multiple of one; a perfect square is returned Composite by
\* trial division or by the square check; none of these reaches the base-2
\* or the Lucas stage.
C23_EarlyStages ==
    (pc = "tested" /\ type = BAILLIE_PSW /\ n >= 3 /\ n % 2 = 1) =>
        /\ (n \in OddTable) => (verdict /\ stage = "trial")
        /\ (n \notin OddTable /\ \E p \in OddTable : n % p = 0) =>
               (~verdict /\ stage = "trial")
        /\ (ISqrt(n) * ISqrt(n) = n) =>
               (~verdict /\ stage \in {"trial", "square"})
        /\ (ISqrt(n) * ISqrt(n) = n /\ \A p \in OddTable : n % p # 0) =>
               stage = "square"
        /\ (stage \in {"base2", "lucas"}) =>
               /\ \A p \in OddTable : n % p # 0
               /\ ISqrt(n) * ISqrt(n) # n

\* the square of a prime above the table was returned Composite by the
\* square check
C23_Witness ==
    /\ pc = "tested"
    /\ type = BAILLIE_PSW
    /\ stage = "square"
    /\ ~verdict
    /\ n > 509 * 509
    /\ Prime(ISqrt(n))

\* C24: in a Miller-Rabin call on odd n >= 5 every witness drawn lies in
\* 2..n-2, the values a round can draw are exactly that interval, and the
\* interval is not empty.
C24_WitnessInterval ==
    (pc = "tested" /\ type = MILLER_RABIN /\ n >= 5 /\ n % 2 = 1) =>
        /\ \A i \in 1..Len(witnesses) :
              2 <= witnesses[i] /\ witnesses[i] <= n - 2
        /\ WitnessRange(n) = 2..(n - 2)
        /\ WitnessRange(n) # {}

\* a two-round call drew both ends of the interval: 2, then n - 2
C24_Witness ==
    /\ pc = "tested"
    /\ type = MILLER_RABIN
    /\ n >= 7 /\ n % 2 = 1
    /\ Len(witnesses) = 2
    /\ witnesses[1] = 2
    /\ witnesses[2] = n - 2

(***************************************************************************)
(* The decomposition loops                                                 *)
(***************************************************************************)
\* m = 2^s * d with d odd and s >= 1, s halvings having been enough
Decomposed(m, d, s) ==
    /\ Pow2(s) * d = m
    /\ d % 2 = 1
    /\ s >= 1
    /\ s < BitLength(m)

\* C25: for the odd n >= 3 strong_lucas_test is called with, the loop of
\* MillerRabin::test and of the base-2 stage of BailliePSW::test ends with
\* n - 1 = 2^s * d, and the loop of strong_lucas_test ends with
\* n + 1 = 2^s * d, d odd and s >= 1, after s iterations.
C25_Decompositions ==
    /\ (pc \in {"dsearch", "dfound", "lucasdone"} /\ lucas.n >= 3) =>
           Decomposed(lucas.n - 1, Decompose(lucas.n - 1).d,
                      Decompose(lucas.n - 1).s)
    /\ (pc = "lucasdone" /\ lucas.kind = "found") =>
           Decomposed(lucas.n + 1, lucas.d, lucas.s)

\* strong_lucas_test halved n + 1 at least three times
C25_Witness ==
    /\ pc = "lucasdone"
    /\ lucas.kind = "found"
    /\ lucas.s >= 3
    /\ lucas.d > 1
    /\ Pow2(lucas.s) * lucas.d = lucas.n + 1

(***************************************************************************)
(* The loop of lucas_sequence_mod                                          *)
(***************************************************************************)
\* The running (u0, v0) of a call with index k after the iteration for bit
\* j of k is what the call with index k \div 2^j returns: the loop reads
\* the bits of k below the top one from the highest down.  So the values
\* at the end of the last iteration, over every k, are the values at the
\* end of every iteration.

\* the numerator t1 + t2 = P * U_2m + V_2m the last iteration of the call
\* in seq halves, U_2m and V_2m being what its doubling step left
OddStepNumerator ==
    LET prev == lucas_sequence_mod(seq.P, seq.Q, seq.k \div 2, seq.n)
        dbl == LucasStep(prev.U, prev.V, seq.P, seq.Q, seq.n, FALSE)
    IN  MulMod(dbl.U, seq.P, seq.n) + dbl.V

\* C26: with an odd modulus n, the U and V lucas_sequence_mod holds at the
\* end of an iteration lie in 0..n-1, and the U an odd step leaves is the
\* numerator P * U_2m + V_2m divided by 2 modulo n.
C26_NormalisedAndHalved ==
    (pc = "sequence") =>
        /\ seq.U \in 0..(seq.n - 1)
        /\ seq.V \in 0..(seq.n - 1)
        /\ (seq.k >= 2 /\ seq.k % 2 = 1) =>
               (2 * seq.U - OddStepNumerator) % seq.n = 0

\* an odd step halved an odd numerator
C26_Witness ==
    /\ pc = "sequence"
    /\ seq.k >= 3
    /\ seq.k % 2 = 1
    /\ OddStepNumerator % 2 = 1
    /\ (2 * seq.U - OddStepNumerator) % seq.n = 0
    /\ 2 * seq.U # OddStepNumerator

C28_RandbitsExactLength ==
    (pc = "randbits") =>
        IF prng.k >= 1
        THEN /\ SizeInBase2(prng.result) = prng.k
             /\ (prng.k - 1) \in prng.result
             /\ \A b \in prng.result : b >= 0 /\ b < prng.k
             /\ 64 * prng.calls >= prng.k
             /\ 64 * (prng.calls - 1) < prng.k
        ELSE prng.result = {} /\ prng.calls = 0

\* two outputs of value 0 were trimmed to 65 bits: only the forced top bit
\* is set
C28_Witness ==
    /\ pc = "randbits"
    /\ prng.k = 65
    /\ prng.calls = 2
    /\ prng.result = {64}

(***************************************************************************)
(* continuous_operation                                                    *)
(***************************************************************************)
\* C29: g_running starts true and changes only to false and only in the
\* SIGINT handler; once it is false no further iteration of the loop of
\* run_prng or run_primality starts (only an operation in progress is
\* completed), and the run goes on to print the completion summary: after
\* a SIGINT at any point of the run the program ends with the summary.
C29_GracefulTermination ==
    /\ [](pc = "idle" => harness.g_running)
    /\ [][harness'.g_running # harness.g_running
            => (harness.g_running /\ ~harness'.g_running /\ SignalHandler)
         ]_vars
    /\ [][~harness.g_running
            => /\ ~(harness.at # "op" /\ harness'.at = "op")
               /\ harness.at # "op" => harness'.iterations = harness.iterations
         ]_vars
    /\ [](~harness.g_running
            => harness.iterations <= harness.stopped_at + 1)
    /\ [](harness.at = "done" <=> harness.summary # "none")
    /\ (pc = "harness" /\ ~harness.g_running)
           ~> (harness.at = "done" /\ harness.summary # "none")

\* SIGINT arrived during the second operation of a Miller-Rabin run: that
\* operation was completed, no third one was started and the summary was
\* printed
C29_Witness ==
    /\ pc = "harness"
    /\ harness.run = "miller_rabin"
    /\ ~harness.g_running
    /\ ~harness.expired
    /\ harness.stopped_at = 1
    /\ harness.iterations = 2
    /\ harness.at = "done"
    /\ harness.summary # "none"

(***************************************************************************)
(* lucas_v_mod                                                             *)
(***************************************************************************)
\* C30: for every k >= 0, lucas_v_mod(v_k, P, Q, k, n) leaves
\* v_k = V_k(P, Q) mod n.
C30_LucasVMod ==
    (pc = "vsequence") => lv.V = LucasV(lv.P, lv.Q, lv.k, lv.n)

====
